---- MODULE Spec2Model ----
(***************************************************************************)
(* Model of encodingbuf's CodecReadBuffer (src/src/reader.rs): a buffered  *)
(* reader that pulls raw bytes from an underlying source, hands them to a  *)
(* stateful encoding_rs decoder and exposes the decoded UTF-8 through      *)
(* fill_buf / consume / read.                                              *)
(*                                                                         *)
(* Bytes are the integers 0..255, strings are sequences of UTF-8 bytes.    *)
(* The decoder is the external encoding_rs::Decoder; it is modelled by     *)
(* what decode_to_string_without_replacement(src, dst, false) does for     *)
(* UTF-8 and UTF-16LE/BE (the Encoding Standard's decoders, with           *)
(* encoding_rs's way of reporting a malformed sequence).                   *)
(***************************************************************************)
EXTENDS Integers, Sequences, FiniteSets, TLC

(* ------------------------------ bounds --------------------------------- *)

\* Longest source document explored (bytes).
MaxLen == 3

\* Largest input-buffer capacity explored by for_encoding_with_capacity.
MaxCap == 4

\* How many times the underlying source may fail a read.
MaxFails == 1

\* Width of the machine word (usize) of the model, in bits.
UsizeBits == 16

\* How many times a consume may wrap around the machine word (each wrap
\* moves the cursor back, so the caller could go on consuming without end).
MaxWraps == 1

\* Longest text (code points) explored by the round-trip specification.
MaxText == 2

\* The longest source (in bytes) given to the constructors.
MaxSrc == 2

\* The longest initial buffer (in bytes) given to the constructors.
MaxInitial == 1

(* --------------------------- program constants ------------------------- *)

DEFAULT_BUF_SIZE == 4096

UsizeModulus == 2 ^ UsizeBits

UsizeMax == UsizeModulus - 1

Encodings == {"utf-8", "utf-16le", "utf-16be"}

(* ------------------------------ helpers -------------------------------- *)

Min(a, b) == IF a < b THEN a ELSE b

Zeros(n) == [i \in 1..n |-> 0]

IsPrefix(s, t) == Len(s) <= Len(t) /\ SubSeq(t, 1, Len(s)) = s

Drop(s, n) == SubSeq(s, n + 1, Len(s))

\* char::encode_utf8: the UTF-8 bytes of one scalar value (what the decoder
\* writes into the destination String for each decoded character).
Utf8Bytes(cp) ==
  IF cp < 128 THEN <<cp>>
  ELSE IF cp < 2048 THEN <<192 + (cp \div 64), 128 + (cp % 64)>>
  ELSE IF cp < 65536
    THEN <<224 + (cp \div 4096), 128 + ((cp \div 64) % 64), 128 + (cp % 64)>>
  ELSE <<240 + (cp \div 262144), 128 + ((cp \div 4096) % 64),
         128 + ((cp \div 64) % 64), 128 + (cp % 64)>>

(* ------------------------------ decoder -------------------------------- *)

\* enc.new_decoder_without_bom_handling(): a fresh decoder, no BOM sniffing.
\* The UTF-8 variant uses code_point .. upper_boundary, the UTF-16 variant
\* lead_byte (-1: none), lead_surrogate (0: none) and pending_bmp.
new_decoder_without_bom_handling ==
  [code_point |-> 0, bytes_needed |-> 0, bytes_seen |-> 0,
   lower_boundary |-> 128, upper_boundary |-> 191,
   lead_byte |-> -1, lead_surrogate |-> 0, pending_bmp |-> FALSE]

DecoderOutcome(result, read, written, d, bad) ==
  [result |-> result, read |-> read, written |-> written, decoder |-> d,
   bad |-> bad]

\* The UTF-8 decoder, one byte at a time from src[i].  A byte that cannot
\* continue the pending sequence ends that sequence as malformed and is
\* itself unread (read = i - 1); a byte that cannot start a sequence is
\* malformed on its own (read = i).
RECURSIVE Utf8Decode(_, _, _, _)
Utf8Decode(d, src, i, out) ==
  IF i > Len(src) THEN DecoderOutcome("InputEmpty", Len(src), out, d, 0)
  ELSE
    LET b == src[i] IN
    IF d.bytes_needed = 0 THEN
      IF b < 128 THEN Utf8Decode(d, src, i + 1, Append(out, b))
      ELSE IF b >= 194 /\ b <= 223 THEN
        Utf8Decode([d EXCEPT !.bytes_needed = 1, !.code_point = b % 32],
                   src, i + 1, out)
      ELSE IF b >= 224 /\ b <= 239 THEN
        Utf8Decode([d EXCEPT !.bytes_needed = 2, !.code_point = b % 16,
                             !.lower_boundary = IF b = 224 THEN 160 ELSE 128,
                             !.upper_boundary = IF b = 237 THEN 159 ELSE 191],
                   src, i + 1, out)
      ELSE IF b >= 240 /\ b <= 244 THEN
        Utf8Decode([d EXCEPT !.bytes_needed = 3, !.code_point = b % 8,
                             !.lower_boundary = IF b = 240 THEN 144 ELSE 128,
                             !.upper_boundary = IF b = 244 THEN 143 ELSE 191],
                   src, i + 1, out)
      ELSE DecoderOutcome("Malformed", i, out, d, 1)
    ELSE IF b < d.lower_boundary \/ b > d.upper_boundary THEN
      DecoderOutcome("Malformed", i - 1, out,
                     [d EXCEPT !.code_point = 0, !.bytes_needed = 0,
                               !.bytes_seen = 0, !.lower_boundary = 128,
                               !.upper_boundary = 191],
                     d.bytes_seen + 1)
    ELSE
      LET cp == d.code_point * 64 + (b % 64)
          seen == d.bytes_seen + 1
      IN IF seen = d.bytes_needed
         THEN Utf8Decode([d EXCEPT !.code_point = 0, !.bytes_needed = 0,
                                   !.bytes_seen = 0, !.lower_boundary = 128,
                                   !.upper_boundary = 191],
                         src, i + 1, out \o Utf8Bytes(cp))
         ELSE Utf8Decode([d EXCEPT !.code_point = cp, !.bytes_seen = seen,
                                   !.lower_boundary = 128,
                                   !.upper_boundary = 191],
                         src, i + 1, out)

\* The UTF-16 decoder (be: big endian), one byte at a time from src[i],
\* into a destination of cap bytes.  Before it reads a byte the decoder
\* wants room for the longest character (4 bytes) in the destination and
\* stops with OutputFull, the byte unread, when there is less.  Two bytes
\* make a code unit.  A unit that follows a lead surrogate and is no trail
\* surrogate makes the lead malformed; the unit itself was read and is
\* kept in the decoder (as the next lead surrogate, or as a pending BMP
\* character that the next call writes first).
RECURSIVE Utf16Decode(_, _, _, _, _, _)
Utf16Decode(d, be, src, cap, i, out) ==
  IF i > Len(src) THEN DecoderOutcome("InputEmpty", Len(src), out, d, 0)
  ELSE IF Len(out) + 4 > cap
    THEN DecoderOutcome("OutputFull", i - 1, out, d, 0)
  ELSE
    LET b == src[i] IN
    IF d.lead_byte = -1
    THEN Utf16Decode([d EXCEPT !.lead_byte = b], be, src, cap, i + 1, out)
    ELSE
      LET code_unit == IF be THEN d.lead_byte * 256 + b
                             ELSE b * 256 + d.lead_byte
          high_bits == code_unit \div 1024
          d0 == [d EXCEPT !.lead_byte = -1]
      IN
      IF high_bits = 54 THEN            \* 0xD800..0xDBFF: lead surrogate
        IF d.lead_surrogate # 0
        THEN DecoderOutcome("Malformed", i, out,
                            [d0 EXCEPT !.lead_surrogate = code_unit], 2)
        ELSE Utf16Decode([d0 EXCEPT !.lead_surrogate = code_unit],
                         be, src, cap, i + 1, out)
      ELSE IF high_bits = 55 THEN       \* 0xDC00..0xDFFF: trail surrogate
        IF d.lead_surrogate = 0
        THEN DecoderOutcome("Malformed", i, out, d0, 2)
        ELSE Utf16Decode([d0 EXCEPT !.lead_surrogate = 0], be, src, cap, i + 1,
               out \o Utf8Bytes(65536 + (d.lead_surrogate - 55296) * 1024
                                      + (code_unit - 56320)))
      ELSE IF d.lead_surrogate # 0
        THEN DecoderOutcome("Malformed", i, out,
                            [d0 EXCEPT !.lead_surrogate = code_unit,
                                       !.pending_bmp = TRUE], 2)
        ELSE Utf16Decode(d0, be, src, cap, i + 1, out \o Utf8Bytes(code_unit))

\* decoder.decode_to_string_without_replacement(src, dst, last = false)
\* with a destination of dst_capacity bytes.  The UTF-16 decoder writes a
\* BMP character left pending by the previous (malformed) call first, for
\* which it wants room for 3 bytes.  The UTF-8 decoder needs at most
\* len(src) + 3 bytes, which no destination of 4 x len(src) bytes falls
\* short of while there is input, so it never returns OutputFull here.
decode_to_string_without_replacement(encoding, d, src, dst_capacity) ==
  IF encoding = "utf-8" THEN Utf8Decode(d, src, 1, <<>>)
  ELSE IF d.pending_bmp THEN
    IF dst_capacity < 3 THEN DecoderOutcome("OutputFull", 0, <<>>, d, 0)
    ELSE Utf16Decode([d EXCEPT !.pending_bmp = FALSE, !.lead_surrogate = 0],
                     encoding = "utf-16be", src, dst_capacity, 1,
                     Utf8Bytes(d.lead_surrogate))
  ELSE Utf16Decode(d, encoding = "utf-16be", src, dst_capacity, 1, <<>>)

(* ------------------------------- reader -------------------------------- *)

\* decoder_helper with the Malformed result ignored: whatever was decoded
\* before the malformed sequence is returned as Ok.
decoder_helper_result_lossy(r) ==
  [ok |-> TRUE, decoded |-> r.written, position |-> -1,
   decoder |-> r.decoder]

\* The tail of decoder_helper: a Malformed result r becomes an error that
\* reports bytes_read as the position, anything else is Ok(decoded).
decoder_helper_result(r) ==
  IF r.result = "Malformed"
  THEN [ok |-> FALSE, decoded |-> <<>>, position |-> r.read,
        decoder |-> r.decoder]
  ELSE [ok |-> TRUE, decoded |-> r.written, position |-> -1,
        decoder |-> r.decoder]

\* pub fn decoder_helper(decoder, input) -> io::Result<String>: decode into
\* a String of capacity 4 x len(input) and classify the result.
decoder_helper(encoding, decoder, input) ==
  decoder_helper_result(
    decode_to_string_without_replacement(encoding, decoder, input,
                                         Len(input) * 4))

\* What one call of inner.read(buf) may answer for a buffer of len bytes:
\* an error, or a count of bytes (0 only for an empty buffer or at the end
\* of the source; otherwise any count up to what fits and what is left).
SourceAnswers(src, len, may_fail) ==
  {[fail |-> FALSE, n |-> k] :
     k \in IF Min(len, Len(src)) = 0 THEN {0} ELSE 1..Min(len, Len(src))}
  \cup (IF may_fail THEN {[fail |-> TRUE, n |-> 0]} ELSE {})

\* fill_input_buf without the second resize: the buffer keeps its capacity,
\* zero padded after the bytes read.
fill_input_buf_untrimmed(self, e) ==
  IF self.input_buf = <<>> THEN
    IF e.fail
    THEN [ok |-> FALSE, called |-> TRUE, read_size |-> 0,
          self |-> [self EXCEPT !.input_buf = Zeros(self.capacity)]]
    ELSE [ok |-> TRUE, called |-> TRUE, read_size |-> e.n,
          self |-> [self EXCEPT !.input_buf = SubSeq(self.inner, 1, e.n)
                                    \o Zeros(self.capacity - e.n),
                                !.inner = Drop(self.inner, e.n)]]
  ELSE [ok |-> TRUE, called |-> FALSE, read_size |-> 0, self |-> self]

\* fn fill_input_buf(&mut self): only when input_buf is empty, grow it to
\* its capacity (zero filled), read into it and cut it to the bytes read.
\* A failed read returns early and leaves the buffer at its capacity.
fill_input_buf(self, e) ==
  IF self.input_buf = <<>> THEN
    IF e.fail
    THEN [ok |-> FALSE, called |-> TRUE, read_size |-> 0,
          self |-> [self EXCEPT !.input_buf = Zeros(self.capacity)]]
    ELSE [ok |-> TRUE, called |-> TRUE, read_size |-> e.n,
          self |-> [self EXCEPT !.input_buf = SubSeq(self.inner, 1, e.n),
                                !.inner = Drop(self.inner, e.n)]]
  ELSE [ok |-> TRUE, called |-> FALSE, read_size |-> 0, self |-> self]

\* The slice fill_buf returns: &output_buf.as_bytes()[output_pos..]
Slice(self) == Drop(self.output_buf, self.output_pos)

\* What a call did: the reader after it, its result ("ok", "io_error",
\* "malformed"), the slice returned, whether it refilled, the count the
\* source returned in it (-1: the source was not read), the bytes it handed
\* to the decoder and the position a malformed-input error reports.
FillBufOutcome(self, res, refilled, src_read, chunk, position) ==
  [self |-> self, res |-> res, refilled |-> refilled, src_read |-> src_read,
   chunk |-> chunk, position |-> position, panic |-> FALSE,
   data |-> IF res = "ok" THEN Slice(self) ELSE <<>>]

\* fill_buf after fill_input_buf returned Ok (f) and decoder_helper
\* returned h: an error leaves input_buf, output_buf and output_pos as they
\* are; success installs the chunk, clears input_buf and resets the cursor.
fill_buf_decoded(f, h) ==
  IF ~h.ok
  THEN FillBufOutcome([f.self EXCEPT !.decoder = h.decoder], "malformed",
                      TRUE, IF f.called THEN f.read_size ELSE -1,
                      f.self.input_buf, h.position)
  ELSE FillBufOutcome([f.self EXCEPT !.decoder = h.decoder,
                                     !.output_buf = h.decoded,
                                     !.input_buf = <<>>,
                                     !.output_pos = 0],
                      "ok", TRUE, IF f.called THEN f.read_size ELSE -1,
                      f.self.input_buf, -1)

\* fill_buf once the chunk is drained, after fill_input_buf returned f.
fill_buf_refill(f) ==
  IF ~f.ok
  THEN FillBufOutcome(f.self, "io_error", TRUE, -1, <<>>, -1)
  ELSE fill_buf_decoded(f, decoder_helper(f.self.encoding, f.self.decoder,
                                          f.self.input_buf))

\* fill_buf without the test of the cursor: every call refills.
fill_buf_always_refills(self, e) == fill_buf_refill(fill_input_buf(self, e))

\* fn fill_buf(&mut self) -> io::Result<&[u8]>
fill_buf(self, e) ==
  IF self.output_pos >= Len(self.output_buf)
  THEN fill_buf_refill(fill_input_buf(self, e))
  ELSE FillBufOutcome(self, "ok", FALSE, -1, <<>>, -1)

\* fn consume(&mut self, amt): output_pos = min(output_pos + amt, len).
\* The addition is a plain usize addition: with overflow checks (a debug
\* build) it panics when the sum does not fit, without them it wraps.
consume(self, amt, overflow_checks) ==
  IF self.output_pos + amt >= UsizeModulus /\ overflow_checks
  THEN [panic |-> TRUE, self |-> self]
  ELSE [panic |-> FALSE,
        self |-> [self EXCEPT
                    !.output_pos = Min((self.output_pos + amt) % UsizeModulus,
                                       Len(self.output_buf))]]

\* read after fill_buf returned f: copy what fits into buf, consume it.
read_copy(f, nread, overflow_checks) ==
  [f EXCEPT !.self = consume(f.self, nread, overflow_checks).self,
            !.panic = consume(f.self, nread, overflow_checks).panic,
            !.data = SubSeq(f.data, 1, nread)]

read_filled(f, buf_len, overflow_checks) ==
  IF f.res # "ok" THEN f
  ELSE read_copy(f, Min(buf_len, Len(f.data)), overflow_checks)

\* fn read(&mut self, buf) -> io::Result<usize>
read(self, buf_len, e, overflow_checks) ==
  read_filled(fill_buf(self, e), buf_len, overflow_checks)

(* ---------------------------- state machine ---------------------------- *)

VARIABLES
  inner,            \* CodecReadBuffer.inner: the source's bytes not yet read
  encoding,         \* the encoding the decoder was created for
  decoder,          \* CodecReadBuffer.decoder
  input_buf,        \* CodecReadBuffer.input_buf
  capacity,         \* input_buf.capacity()
  output_buf,       \* CodecReadBuffer.output_buf (UTF-8 bytes)
  output_pos,       \* CodecReadBuffer.output_pos
  doc,              \* history: every byte the source holds
  fails_left,       \* how many more reads of the source may fail
  eof,              \* history: the source has returned a zero-length read
  ret,              \* history: what the last call returned
  consumed,         \* history: the bytes the caller has consumed, in order
  at_end,           \* history: consumed at the first empty result
  wraps,            \* history: how often a consume wrapped around the word
  malformed_seen    \* history: a call has returned a malformed-input error

vars == <<inner, encoding, decoder, input_buf, capacity, output_buf,
          output_pos, doc, fails_left, eof, ret, consumed, at_end, wraps,
          malformed_seen>>

\* The bytes the explored documents are made of: for UTF-8 'A', the three
\* bytes of U+FEFF (EF BB BF) and FF, which no UTF-8 sequence contains; for
\* UTF-16 the bytes of 'A' (0041) and of the surrogates D8xx and DCxx.
Alphabet(enc) == IF enc = "utf-8" THEN {65, 239, 187, 191, 255}
                 ELSE {0, 65, 216, 220}

SeqsUpTo(S, n) == UNION {[1..k -> S] : k \in 0..n}

\* One more document per UTF-16 encoding: a lead surrogate (D800) followed
\* by a BMP character ('A'), which is malformed at its last byte.
UnpairedLead(enc) ==
  IF enc = "utf-16le" THEN {<<0, 216, 65, 0>>}
  ELSE IF enc = "utf-16be" THEN {<<216, 0, 0, 65>>}
  ELSE {}

Capacities == 1..MaxCap

\* The amounts a caller passes to consume, and the buffer sizes to read.
Amounts == {1, UsizeMax}

BufLens == {1, 32}

Self ==
  [inner |-> inner, encoding |-> encoding, decoder |-> decoder,
   input_buf |-> input_buf, capacity |-> capacity,
   output_buf |-> output_buf, output_pos |-> output_pos]

NoCall ==
  [op |-> "new", res |-> "ok", data |-> <<>>, refilled |-> FALSE,
   src_read |-> -1, chunk |-> <<>>, position |-> -1, amt |-> 0]

\* CodecReadBuffer::for_encoding_with_capacity(inner, encoding, capacity)
\* -> for_encoding_with_initial_buffer(.., Vec::with_capacity(capacity)):
\* nothing is read, the buffers are empty, the cursor is 0.
Init ==
  /\ encoding \in Encodings
  /\ doc \in SeqsUpTo(Alphabet(encoding), MaxLen) \cup UnpairedLead(encoding)
  /\ capacity \in Capacities
  /\ inner = doc
  /\ decoder = new_decoder_without_bom_handling
  /\ input_buf = <<>>
  /\ output_buf = <<>>
  /\ output_pos = 0
  /\ fails_left = MaxFails
  /\ eof = FALSE
  /\ ret = NoCall
  /\ consumed = <<>>
  /\ at_end = [seen |-> FALSE, out |-> <<>>]
  /\ wraps = 0
  /\ malformed_seen = FALSE

\* The build: with overflow checks (TRUE, a debug build) an overflowing
\* addition panics, without them (FALSE, a release build) it wraps.  Both
\* builds run alike until the first overflow, so a run's build shows only
\* there: a run in which a consume has wrapped is a release run.
Builds == IF wraps = 0 THEN BOOLEAN ELSE {FALSE}

\* The answers the source may give to the read of this call, if it is read.
Answers == SourceAnswers(inner, capacity, fails_left > 0 /\ ~eof)

\* The reader's fields after a call.
Store(s) ==
  /\ inner' = s.inner
  /\ decoder' = s.decoder
  /\ input_buf' = s.input_buf
  /\ output_buf' = s.output_buf
  /\ output_pos' = s.output_pos
  /\ UNCHANGED <<encoding, capacity, doc>>

\* The history of the source after a call with outcome o that was given
\* the answer e.
SourceHistory(o, e) ==
  LET was_read == o.refilled /\ (o.src_read >= 0 \/ o.res = "io_error") IN
  /\ fails_left' = IF was_read /\ e.fail THEN fails_left - 1 ELSE fails_left
  /\ eof' = (eof \/ (was_read /\ ~e.fail /\ e.n = 0))
  /\ malformed_seen' = (malformed_seen \/ o.res = "malformed")

\* The state after a fill_buf or read (op) with outcome o, for which the
\* source had the answer e: the caller has taken the bytes `taken`.
Returned(op, o, e, taken) ==
  /\ Store(o.self)
  /\ SourceHistory(o, e)
  /\ consumed' = consumed \o taken
  /\ ret' = [op |-> op, res |-> o.res, data |-> o.data,
             refilled |-> o.refilled, src_read |-> o.src_read,
             chunk |-> o.chunk, position |-> o.position, amt |-> 0]
  /\ at_end' = IF ~at_end.seen /\ o.res = "ok" /\ o.data = <<>>
               THEN [seen |-> TRUE, out |-> consumed] ELSE at_end
  /\ UNCHANGED wraps

\* The caller calls fill_buf.
FillBuf ==
  /\ ret.res # "panic"
  /\ \E e \in Answers : Returned("fill_buf", fill_buf(Self, e), e, <<>>)

\* The state after consume(amt) with outcome c: the bytes the cursor
\* passed are the ones the caller has taken.
Consumed(amt, c, wrapped) ==
  /\ wrapped => wraps < MaxWraps
  /\ Store(c.self)
  /\ consumed' = consumed \o SubSeq(output_buf, output_pos + 1,
                                    c.self.output_pos)
  /\ wraps' = IF wrapped THEN wraps + 1 ELSE wraps
  /\ ret' = [NoCall EXCEPT !.op = "consume", !.amt = amt,
                           !.res = IF c.panic THEN "panic" ELSE "ok"]
  /\ UNCHANGED <<fails_left, eof, at_end, malformed_seen>>

\* The caller calls consume(amt).
Consume ==
  /\ ret.res # "panic"
  /\ \E amt \in Amounts, overflow_checks \in Builds :
       Consumed(amt, consume(Self, amt, overflow_checks),
                ~overflow_checks /\ output_pos + amt >= UsizeModulus)

\* read's outcome as the caller sees it (the bytes copied are the bytes
\* taken).
ReadReturned(o, e) == Returned("read", o, e, o.data)

\* The caller calls read with a buffer of buf_len bytes.
Read ==
  /\ ret.res # "panic"
  /\ \E buf_len \in BufLens, e \in Answers, overflow_checks \in Builds :
       ReadReturned(read(Self, buf_len, e, overflow_checks), e)

Next == FillBuf \/ Consume \/ Read

Spec == Init /\ [][Next]_vars

(* ------------------- reading a document to its end -------------------- *)

\* The characters the round-trip documents are made of: 'A', U+00E9,
\* U+FEFF (the byte-order mark) and U+1F600 (a surrogate pair in UTF-16).
CodePoints == {65, 233, 65279, 128512}

\* One character in UTF-16, as bytes (be: big endian first).
Utf16Unit(u, be) ==
  IF be THEN <<u \div 256, u % 256>> ELSE <<u % 256, u \div 256>>

Utf16Bytes(cp, be) ==
  IF cp < 65536 THEN Utf16Unit(cp, be)
  ELSE Utf16Unit(55296 + ((cp - 65536) \div 1024), be)
       \o Utf16Unit(56320 + ((cp - 65536) % 1024), be)

\* A text (a sequence of code points) in an encoding: the test documents
\* tests/<encoding>/doc.xml, tests/<encoding>_bom/doc.xml.
RECURSIVE Encode(_, _)
Encode(enc, text) ==
  IF text = <<>> THEN <<>>
  ELSE (IF enc = "utf-8" THEN Utf8Bytes(text[1])
        ELSE Utf16Bytes(text[1], enc = "utf-16be"))
       \o Encode(enc, Tail(text))

\* CodecReadBuffer::for_encoding(inner, encoding): the default capacity,
\* over a source that holds a text in that encoding and never fails.
InitForEncoding ==
  /\ encoding \in Encodings
  /\ doc \in {Encode(encoding, t) : t \in SeqsUpTo(CodePoints, MaxText)}
  /\ capacity = DEFAULT_BUF_SIZE
  /\ inner = doc
  /\ decoder = new_decoder_without_bom_handling
  /\ input_buf = <<>>
  /\ output_buf = <<>>
  /\ output_pos = 0
  /\ fails_left = 0
  /\ eof = FALSE
  /\ ret = NoCall
  /\ consumed = <<>>
  /\ at_end = [seen |-> FALSE, out |-> <<>>]
  /\ wraps = 0
  /\ malformed_seen = FALSE

\* read_to_string / read_to_end: read into a buffer with room until a read
\* returns Ok(0) or an error.
ReadToEnd ==
  /\ ~at_end.seen
  /\ ret.res = "ok"
  /\ \E e \in Answers : ReadReturned(read(Self, 32, e, TRUE), e)

NextForEncoding == ReadToEnd

SpecForEncoding == InitForEncoding /\ [][NextForEncoding]_vars

(* ------------- EncodingToUtf8Reader, the detecting reader -------------- *)

\* <&[u8] as Read>::read(buf): an in-memory source copies as many bytes as
\* fit into the len bytes of buf and returns their number.
slice_read(src, len) == Min(len, Len(src))

\* buf after a read of n bytes from src: the read overwrites buf[..n] and
\* leaves the length of buf as it was.
read_into(buf, src, n) == SubSeq(src, 1, n) \o Drop(buf, n)

\* What get_encodingref(chardet::detect(prefix)) may come to for a prefix
\* the detector has nothing to go on: no codec ("none") or one of the
\* codecs of the documents.
DetectedCodecs == {"none", "utf-8", "utf-16le"}

\* codec.decode(input, DecoderTrap::Ignore) after the decoder returned r
\* for input: a malformed sequence is skipped and decoding goes on.
RECURSIVE decode_ignore(_, _, _)
decode_ignore(codec, r, input) ==
  IF r.result = "Malformed"
  THEN r.written
       \o decode_ignore(codec,
            decode_to_string_without_replacement(
              codec, r.decoder, Drop(input, r.read), 4 * Len(input) + 4),
            Drop(input, r.read))
  ELSE r.written

\* codec.decode(&self.input_buf, DecoderTrap::Ignore): every call decodes
\* its input on its own, from a fresh decoder.
decode(codec, input) ==
  decode_ignore(codec,
    decode_to_string_without_replacement(
      codec, new_decoder_without_bom_handling, input, 4 * Len(input) + 4),
    input)

\* fn with_codec_and_input_buf(codec, input_buf, inner) -> Self
with_codec_and_input_buf(codec, buf, src) ==
  [inner |-> src, codec |-> codec, output_buf |-> <<>>, pos |-> 0,
   input_buf |-> buf]

\* with_capacity once the prefix was read into detection_buf (n bytes).
with_capacity_detected(detection_buf, src, n, detected) ==
  IF detected = "none"
  THEN [ok |-> FALSE, read_size |-> n,
        self |-> with_codec_and_input_buf("none", <<>>, Drop(src, n))]
  ELSE [ok |-> TRUE, read_size |-> n,
        self |-> with_codec_and_input_buf(
                   detected, read_into(detection_buf, src, n),
                   Drop(src, n))]

\* pub fn with_capacity(capacity (cap), inner (src)): detection_buf is
\* Vec::with_capacity(capacity), a vector of length 0, and the read is
\* given its (empty) contents as the buffer.
with_capacity(cap, src, detected) ==
  with_capacity_detected(<<>>, src, slice_read(src, Len(<<>>)),
                         detected)

\* EncodingToUtf8Reader::fill_input_buf: when input_buf is empty, read into
\* it as it is (its length is not raised to its capacity).
EncodingToUtf8Reader_fill_input_buf(self) ==
  IF self.input_buf = <<>>
  THEN [read_size |-> slice_read(self.inner, Len(self.input_buf)),
        self |-> [self EXCEPT
                    !.input_buf = read_into(self.input_buf, self.inner,
                                    slice_read(self.inner,
                                               Len(self.input_buf))),
                    !.inner = Drop(self.inner,
                                   slice_read(self.inner,
                                              Len(self.input_buf)))]]
  ELSE [read_size |-> 0, self |-> self]

\* EncodingToUtf8Reader::fill_buf, the refill after fill_input_buf gave f:
\* decode, clear input_buf; pos is left as it is.
EncodingToUtf8Reader_refill(f) ==
  [read_size |-> f.read_size,
   self |-> [f.self EXCEPT
               !.output_buf = decode(f.self.codec, f.self.input_buf),
               !.input_buf = <<>>]]

\* EncodingToUtf8Reader::fill_buf
EncodingToUtf8Reader_fill_buf(self) ==
  IF self.pos >= Len(self.output_buf)
  THEN EncodingToUtf8Reader_refill(EncodingToUtf8Reader_fill_input_buf(self))
  ELSE [read_size |-> -1, self |-> self]

\* EncodingToUtf8Reader::read after fill_buf gave f: copy what fits of
\* output_buf[pos..] into buf and consume it.
EncodingToUtf8Reader_read_copy(f, nread) ==
  [read_size |-> f.read_size,
   data |-> SubSeq(Drop(f.self.output_buf, f.self.pos), 1, nread),
   self |-> [f.self EXCEPT
               !.pos = Min(f.self.pos + nread, Len(f.self.output_buf))]]

\* EncodingToUtf8Reader::read
EncodingToUtf8Reader_read(self, buf_len) ==
  EncodingToUtf8Reader_read_copy(
    EncodingToUtf8Reader_fill_buf(self),
    Min(buf_len, Len(Drop(EncodingToUtf8Reader_fill_buf(self).self.output_buf,
                          EncodingToUtf8Reader_fill_buf(self).self.pos))))

\* The EncodingToUtf8Reader the variables hold: decoder holds its codec,
\* output_pos its pos; encoding is the encoding the document was written
\* in.
SelfToUtf8 ==
  [inner |-> inner, codec |-> decoder, output_buf |-> output_buf,
   pos |-> output_pos, input_buf |-> input_buf]

StoreToUtf8(s) ==
  /\ inner' = s.inner
  /\ decoder' = s.codec
  /\ input_buf' = s.input_buf
  /\ output_buf' = s.output_buf
  /\ output_pos' = s.pos
  /\ UNCHANGED <<encoding, capacity, doc, fails_left, wraps, malformed_seen>>

\* Before EncodingToUtf8Reader::new(inner): an in-memory source that holds
\* a UTF-8 or a UTF-16LE document (reader_tests::test_utf8, test_utf16).
InitToUtf8 ==
  /\ encoding \in {"utf-8", "utf-16le"}
  /\ doc \in {Encode(encoding, t) : t \in SeqsUpTo(CodePoints, MaxText)}
  /\ capacity = DEFAULT_BUF_SIZE
  /\ inner = doc
  /\ decoder = "none"
  /\ input_buf = <<>>
  /\ output_buf = <<>>
  /\ output_pos = 0
  /\ fails_left = 0
  /\ eof = FALSE
  /\ ret = [NoCall EXCEPT !.op = "none"]
  /\ consumed = <<>>
  /\ at_end = [seen |-> FALSE, out |-> <<>>]
  /\ wraps = 0
  /\ malformed_seen = FALSE

\* The state after new() returned c.
Constructed(c) ==
  /\ StoreToUtf8(c.self)
  /\ ret' = [NoCall EXCEPT !.res = IF c.ok THEN "ok" ELSE "detection_failed",
                           !.src_read = c.read_size]
  /\ UNCHANGED <<eof, consumed, at_end>>

\* EncodingToUtf8Reader::new(inner) = with_capacity(DEFAULT_BUF_SIZE, inner)
New ==
  /\ ret.op = "none"
  /\ \E detected \in DetectedCodecs :
       Constructed(with_capacity(capacity, inner, detected))

\* The state after a read of read_to_string returned o.
ReadToUtf8(o) ==
  /\ StoreToUtf8(o.self)
  /\ eof' = (eof \/ o.read_size = 0)
  /\ consumed' = consumed \o o.data
  /\ ret' = [NoCall EXCEPT !.op = "read", !.data = o.data,
                           !.refilled = (o.read_size >= 0),
                           !.src_read = o.read_size]
  /\ at_end' = IF o.data = <<>> THEN [seen |-> TRUE, out |-> consumed]
               ELSE at_end

\* read_to_string on the reader new() returned: read until Ok(0).
ReadToString ==
  /\ ret.op # "none"
  /\ ret.res = "ok"
  /\ ~at_end.seen
  /\ ReadToUtf8(EncodingToUtf8Reader_read(SelfToUtf8, 32))

NextToUtf8 == New \/ ReadToString

SpecToUtf8 == InitToUtf8 /\ [][NextToUtf8]_vars

(* ---------------------------- construction ----------------------------- *)

\* The labels a caller passes: labels of the three encodings (looked up
\* without regard to case), the label of the replacement encoding, which
\* for_label_no_replacement refuses, and labels of no encoding.
Labels == {"utf-8", "UTF8", "utf-16", "utf-16le", "utf-16be",
           "replacement", "no-such-encoding", ""}

\* encoding_rs::Encoding::for_label_no_replacement(label): the encoding the
\* label stands for, "none" for None.
for_label_no_replacement(label) ==
  CASE label \in {"utf-8", "UTF8"} -> "utf-8"
    [] label \in {"utf-16", "utf-16le"} -> "utf-16le"
    [] label = "utf-16be" -> "utf-16be"
    [] OTHER -> "none"

\* for_encoding_with_initial_buffer that reads a first chunk from the
\* source into the buffer before it looks the label up.
for_encoding_with_initial_buffer_prefetching(src, encoding_name, buf, cap) ==
  [ok |-> for_label_no_replacement(encoding_name) # "none",
   named |-> IF for_label_no_replacement(encoding_name) # "none" THEN "?"
             ELSE encoding_name,
   self |-> [inner |-> Drop(src, Min(cap - Len(buf), Len(src))),
             encoding |-> for_label_no_replacement(encoding_name),
             decoder |-> new_decoder_without_bom_handling,
             input_buf |-> buf \o SubSeq(src, 1,
                                         Min(cap - Len(buf), Len(src))),
             capacity |-> cap, output_buf |-> <<>>, output_pos |-> 0]]

\* pub fn for_encoding_with_initial_buffer(inner (src), encoding_name,
\* input_buf (buf, of capacity cap)): look the label up; None is the
\* error "Unrecognized input encoding name: {encoding_name}", Some(enc)
\* gives the reader with enc's decoder, the buffer as it was passed, an
\* empty output chunk and the cursor at 0.  named is the label the error
\* message holds ("?" when there is no error).
for_encoding_with_initial_buffer(src, encoding_name, buf, cap) ==
  [ok |-> for_label_no_replacement(encoding_name) # "none",
   named |-> IF for_label_no_replacement(encoding_name) # "none" THEN "?"
             ELSE encoding_name,
   self |-> [inner |-> src,
             encoding |-> for_label_no_replacement(encoding_name),
             decoder |-> new_decoder_without_bom_handling,
             input_buf |-> buf, capacity |-> cap,
             output_buf |-> <<>>, output_pos |-> 0]]

\* pub fn for_encoding_with_capacity(inner, encoding_name, capacity)
for_encoding_with_capacity(src, encoding_name, cap) ==
  for_encoding_with_initial_buffer(src, encoding_name, <<>>, cap)

\* pub fn for_encoding(inner, encoding_name)
for_encoding(src, encoding_name) ==
  for_encoding_with_capacity(src, encoding_name, DEFAULT_BUF_SIZE)

\* The bytes of the sources and of the initial buffers given to the
\* constructors.
Bytes == Alphabet("utf-8") \cup Alphabet("utf-16le")

\* Before the constructor is called: a source and no reader.
InitConstruct ==
  /\ doc \in SeqsUpTo(Bytes, MaxSrc)
  /\ inner = doc
  /\ encoding = "none"
  /\ capacity = 0
  /\ decoder = new_decoder_without_bom_handling
  /\ input_buf = <<>>
  /\ output_buf = <<>>
  /\ output_pos = 0
  /\ fails_left = MaxFails
  /\ eof = FALSE
  /\ ret = [NoCall EXCEPT !.op = "none"]
  /\ consumed = <<>>
  /\ at_end = [seen |-> FALSE, out |-> <<>>]
  /\ wraps = 0
  /\ malformed_seen = FALSE

\* The state after a constructor that was given encoding_name returned c.
ConstructorReturned(encoding_name, c) ==
  /\ inner' = c.self.inner
  /\ encoding' = c.self.encoding
  /\ capacity' = c.self.capacity
  /\ decoder' = c.self.decoder
  /\ input_buf' = c.self.input_buf
  /\ output_buf' = c.self.output_buf
  /\ output_pos' = c.self.output_pos
  /\ ret' = [op |-> "new", res |-> IF c.ok THEN "ok" ELSE "unrecognized",
             data |-> <<>>, refilled |-> FALSE, src_read |-> -1,
             chunk |-> <<>>, position |-> -1, amt |-> 0,
             label |-> encoding_name, named |-> c.named]
  /\ UNCHANGED <<doc, fails_left, eof, consumed, at_end, wraps,
                 malformed_seen>>

ForEncoding ==
  /\ ret.op = "none"
  /\ \E encoding_name \in Labels :
       ConstructorReturned(encoding_name, for_encoding(inner, encoding_name))

ForEncodingWithCapacity ==
  /\ ret.op = "none"
  /\ \E encoding_name \in Labels, cap \in 0..MaxCap :
       ConstructorReturned(encoding_name,
         for_encoding_with_capacity(inner, encoding_name, cap))

\* The initial buffer is any vector of up to MaxInitial bytes, of any
\* capacity that holds it.
ForEncodingWithInitialBuffer ==
  /\ ret.op = "none"
  /\ \E encoding_name \in Labels, buf \in SeqsUpTo(Bytes, MaxInitial) :
       \E cap \in Len(buf)..MaxCap :
         ConstructorReturned(encoding_name,
           for_encoding_with_initial_buffer(inner, encoding_name, buf, cap))

\* The first call on the reader a constructor returned.
FirstFillBuf == ret.op = "new" /\ ret.res = "ok" /\ FillBuf

FirstRead == ret.op = "new" /\ ret.res = "ok" /\ Read

NextConstruct ==
  \/ ForEncoding
  \/ ForEncodingWithCapacity
  \/ ForEncodingWithInitialBuffer
  \/ FirstFillBuf
  \/ FirstRead

SpecConstruct == InitConstruct /\ [][NextConstruct]_vars

(* ----------------------- reference definitions ------------------------- *)

\* Well-formed UTF-8 (the Unicode Standard, table 3-7): the length of the
\* character that starts at s[i], 0 if none does.
IsCont(s, i, lo, hi) == i <= Len(s) /\ s[i] >= lo /\ s[i] <= hi

Utf8CharLen(s, i) ==
  LET b == s[i] IN
  IF b < 128 THEN 1
  ELSE IF b >= 194 /\ b <= 223
    THEN IF IsCont(s, i + 1, 128, 191) THEN 2 ELSE 0
  ELSE IF b >= 224 /\ b <= 239
    THEN IF /\ IsCont(s, i + 1, IF b = 224 THEN 160 ELSE 128,
                               IF b = 237 THEN 159 ELSE 191)
            /\ IsCont(s, i + 2, 128, 191) THEN 3 ELSE 0
  ELSE IF b >= 240 /\ b <= 244
    THEN IF /\ IsCont(s, i + 1, IF b = 240 THEN 144 ELSE 128,
                               IF b = 244 THEN 143 ELSE 191)
            /\ IsCont(s, i + 2, 128, 191)
            /\ IsCont(s, i + 3, 128, 191) THEN 4 ELSE 0
  ELSE 0

\* The code unit at s[i], s[i+1] of a UTF-16 stream.
UnitAt(s, i, be) ==
  IF be THEN s[i] * 256 + s[i + 1] ELSE s[i + 1] * 256 + s[i]

IsLeadSurrogate(u) == u >= 55296 /\ u <= 56319

IsTrailSurrogate(u) == u >= 56320 /\ u <= 57343

Utf16CharLen(s, i, be) ==
  IF i + 1 > Len(s) THEN 0
  ELSE IF IsTrailSurrogate(UnitAt(s, i, be)) THEN 0
  ELSE IF IsLeadSurrogate(UnitAt(s, i, be))
    THEN IF i + 3 <= Len(s) /\ IsTrailSurrogate(UnitAt(s, i + 2, be))
         THEN 4 ELSE 0
  ELSE 2

CharLen(enc, s, i) ==
  IF enc = "utf-8" THEN Utf8CharLen(s, i)
  ELSE Utf16CharLen(s, i, enc = "utf-16be")

\* The length of the longest prefix of s that is a sequence of whole
\* well-formed characters, counted from s[i].
RECURSIVE ValidPrefixLen(_, _, _)
ValidPrefixLen(enc, s, i) ==
  IF i > Len(s) \/ CharLen(enc, s, i) = 0 THEN i - 1
  ELSE ValidPrefixLen(enc, s, i + CharLen(enc, s, i))

\* The scalar value of the well-formed character of n bytes at s[i].
CharValue(enc, s, i, n) ==
  IF enc = "utf-8" THEN
    IF n = 1 THEN s[i]
    ELSE IF n = 2 THEN (s[i] % 32) * 64 + (s[i + 1] % 64)
    ELSE IF n = 3
      THEN (s[i] % 16) * 4096 + (s[i + 1] % 64) * 64 + (s[i + 2] % 64)
    ELSE (s[i] % 8) * 262144 + (s[i + 1] % 64) * 4096
         + (s[i + 2] % 64) * 64 + (s[i + 3] % 64)
  ELSE IF n = 2 THEN UnitAt(s, i, enc = "utf-16be")
  ELSE 65536 + (UnitAt(s, i, enc = "utf-16be") - 55296) * 1024
       + (UnitAt(s, i + 2, enc = "utf-16be") - 56320)

\* The text of the well-formed prefix of s, in UTF-8.
RECURSIVE DecodedText(_, _, _)
DecodedText(enc, s, i) ==
  IF i > Len(s) \/ CharLen(enc, s, i) = 0 THEN <<>>
  ELSE Utf8Bytes(CharValue(enc, s, i, CharLen(enc, s, i)))
       \o DecodedText(enc, s, i + CharLen(enc, s, i))

\* r is the beginning of a character that more bytes could complete.
Incomplete(enc, r) ==
  IF enc = "utf-8" THEN
    /\ Len(r) >= 1
    /\ \/ r[1] >= 194 /\ r[1] <= 223 /\ Len(r) = 1
       \/ /\ r[1] >= 224 /\ r[1] <= 239 /\ Len(r) <= 2
          /\ Len(r) = 2 => IsCont(r, 2, IF r[1] = 224 THEN 160 ELSE 128,
                                        IF r[1] = 237 THEN 159 ELSE 191)
       \/ /\ r[1] >= 240 /\ r[1] <= 244 /\ Len(r) <= 3
          /\ Len(r) >= 2 => IsCont(r, 2, IF r[1] = 240 THEN 144 ELSE 128,
                                         IF r[1] = 244 THEN 143 ELSE 191)
          /\ Len(r) = 3 => IsCont(r, 3, 128, 191)
  ELSE \/ Len(r) = 1
       \/ Len(r) \in {2, 3} /\ IsLeadSurrogate(UnitAt(r, 1, enc = "utf-16be"))

\* s is the beginning of some well-formed stream.
Viable(enc, s) ==
  \/ ValidPrefixLen(enc, s, 1) = Len(s)
  \/ Incomplete(enc, Drop(s, ValidPrefixLen(enc, s, 1)))

\* The bytes the source has returned so far, and the bytes it had returned
\* before the chunk that the last call handed to the decoder.
SourceReturned == SubSeq(doc, 1, Len(doc) - Len(inner))

BeforeChunk == SubSeq(doc, 1, Len(doc) - Len(inner) - Len(ret.chunk))

\* No read of the source has failed and no consume has wrapped.
Undisturbed == fails_left = MaxFails /\ wraps = 0

\* What a reader whose input buffer holds the whole document, filled by
\* one read, delivers before the first empty result.
WholeOutput == decoder_helper(encoding, new_decoder_without_bom_handling,
                              doc).decoded

(* ------------------------------- claims -------------------------------- *)

\* The reader's fields stay in range.
TypeOK ==
  /\ output_pos \in 0..Len(output_buf)
  /\ Len(input_buf) <= capacity
  /\ Len(inner) <= Len(doc)

\* C1 (chunk-size independence): a reader of capacity 1 that is read to the
\* first empty result, undisturbed, has delivered exactly what a reader
\* whose buffer holds the whole document delivers.
C1_ChunkSizeIndependence ==
  (at_end.seen /\ capacity = 1 /\ Undisturbed /\ ~malformed_seen)
    => at_end.out = WholeOutput

\* C2 (empty only at the end of the stream): when fill_buf returns Ok with
\* an empty slice, the source returned a zero-length read in that call and
\* holds no more bytes.
C2_EmptyOnlyAtEndOfStream ==
  (ret.op = "fill_buf" /\ ret.res = "ok" /\ ret.data = <<>>)
    => (ret.src_read = 0 /\ inner = <<>>)

\* C3 (split character): a reader whose capacity exceeds the length of the
\* document and that is read to the first empty result, undisturbed, has
\* delivered the same output however the source cut the document into
\* reads: the output of the single read of the whole document.
C3_SplitCharacterBoundary ==
  (at_end.seen /\ capacity > Len(doc) /\ Undisturbed /\ ~malformed_seen)
    => at_end.out = WholeOutput

\* C4 (ordering, no duplication): what the caller has consumed so far is a
\* prefix of the UTF-8 text of the bytes the source has returned so far.
C4_ConsumedIsPrefixOfDecoded ==
  IsPrefix(consumed, DecodedText(encoding, SourceReturned, 1))

\* C5 (round trip, BOM retained): a document that is a well-formed text in
\* the declared encoding, read to its end through for_encoding, comes out
\* as the UTF-8 bytes of that text, a leading U+FEFF included.
C5_RoundTripKeepsBom ==
  at_end.seen => at_end.out = DecodedText(encoding, doc, 1)

\* C6 (end-of-stream idempotence): once the source has returned a
\* zero-length read and the chunk is fully consumed, every further call
\* returns Ok and nothing, and leaves the cursor and the chunk as they are.
C6_EndOfStreamIdempotent ==
  [][(eof /\ output_pos = Len(output_buf))
       => (/\ ret'.res = "ok"
           /\ ret'.data = <<>>
           /\ output_pos' = output_pos
           /\ output_buf' = output_buf
           /\ eof')]_vars

\* C6 witness: the source is exhausted, the caller had consumed text, and a
\* consume was called after the end of the stream.
C6_Witness ==
  /\ eof
  /\ ret.op = "consume"
  /\ ret.amt = UsizeMax
  /\ consumed # <<>>

\* A chunk of UTF-8 bytes that is malformed wherever it stands in a stream:
\* it holds a byte no UTF-8 sequence contains, a lead byte followed by a
\* byte that continues nothing, or an ASCII byte followed by a continuation.
Utf8ChunkInvalid(c) ==
  \E i \in 1..Len(c) :
    \/ c[i] \in {192, 193} \cup (245..255)
    \/ /\ i < Len(c)
       /\ \/ c[i] >= 194 /\ c[i] <= 244 /\ ~IsCont(c, i + 1, 128, 191)
          \/ c[i] < 128 /\ IsCont(c, i + 1, 128, 191)

\* The chunk the last call handed to the decoder holds an invalid sequence:
\* it is malformed wherever it stands, or it came from the source in this
\* call, undisturbed, and makes a stream that was the beginning of a
\* well-formed one into one that is not.
ChunkInvalid ==
  /\ ret.refilled
  /\ ret.res # "io_error"
  /\ \/ encoding = "utf-8" /\ Utf8ChunkInvalid(ret.chunk)
     \/ /\ ret.src_read > 0
        /\ fails_left = MaxFails
        /\ Viable(encoding, BeforeChunk)
        /\ ~Viable(encoding, SourceReturned)

\* C7 (malformed input is never delivered): a fill_buf or read that hands
\* the decoder a chunk with an invalid sequence returns the malformed-input
\* error and exposes nothing: no data, and the cursor stays at the end of
\* the old chunk.
C7_MalformedNeverDelivered ==
  ChunkInvalid => (/\ ret.res = "malformed"
                   /\ ret.data = <<>>
                   /\ output_pos = Len(output_buf))

\* C7 witness: text was delivered, then a chunk read from the source with an
\* invalid sequence was handed to the decoder.
C7_Witness ==
  /\ ChunkInvalid
  /\ ret.src_read > 0
  /\ consumed # <<>>

\* C8 (reported position): the position of the first malformed-input error
\* of an undisturbed run is the offset, within the chunk, of the first
\* invalid byte: the end of the well-formed prefix of the stream, counted
\* from the start of the chunk.
C8_PositionIsFirstInvalidByte ==
  (/\ ret.res = "malformed"
   /\ ret.src_read > 0
   /\ fails_left = MaxFails
   /\ Viable(encoding, BeforeChunk))
    => ret.position = ValidPrefixLen(encoding, SourceReturned, 1)
                      - Len(BeforeChunk)

\* C9 (the error is terminal): after a call has returned a malformed-input
\* error, no fill_buf or read returns decoded data.
C9_MalformedIsTerminal ==
  malformed_seen
    => ~(ret.op \in {"fill_buf", "read"} /\ ret.res = "ok"
         /\ ret.data # <<>>)

\* C10 (consume saturates): consume(n) sets the cursor to
\* min(pos + n, len(chunk)) for every n of the machine word, never fails
\* and never moves the cursor backward.
C10_ConsumeSaturates ==
  [][ret'.op = "consume"
       => (/\ ret'.res = "ok"
           /\ output_pos' = Min(output_pos + ret'.amt, Len(output_buf))
           /\ output_pos' >= output_pos)]_vars

\* C11 (the detecting reader reads the whole document): on the reader
\* that new() built over an in-memory UTF-8 or UTF-16LE document,
\* read_to_string yields the text of the whole document in UTF-8.
C11_DetectingReaderReadsAll ==
  at_end.seen => at_end.out = DecodedText(encoding, doc, 1)

\* C12 (construction reads nothing): a constructor that is given a label
\* of no encoding fails with an error that names the label, one that is
\* given a label of an encoding succeeds, and neither reads the source:
\* only fill_buf and read take bytes from it.
C12_ConstructionReadsNothing ==
  [][/\ inner' # inner => ret'.op \in {"fill_buf", "read"}
     /\ ret'.op = "new"
          => /\ inner' = doc
             /\ ret'.src_read = -1
             /\ ret'.res = "unrecognized"
                  <=> ret'.label \in {"replacement", "no-such-encoding", ""}
             /\ ret'.res = "unrecognized" => ret'.named = ret'.label]_vars

\* C12 witness: a constructor was given the label of the replacement
\* encoding over a source that holds bytes, and failed.
C12_Witness ==
  /\ ret.op = "new"
  /\ ret.res = "unrecognized"
  /\ ret.label = "replacement"
  /\ inner # <<>>

IsSuffix(s, t) ==
  Len(s) <= Len(t) /\ SubSeq(t, Len(t) - Len(s) + 1, Len(t)) = s

\* C13 (input-buffer invariant): between calls the input buffer is empty or
\* holds the last bytes the source returned, and the bytes a call handed to
\* the decoder are the last bytes the source returned: never zero padding.
C13_InputBufHoldsSourceBytes ==
  /\ input_buf = <<>> \/ IsSuffix(input_buf, SourceReturned)
  /\ (ret.refilled /\ ret.res # "io_error")
       => IsSuffix(ret.chunk, SourceReturned)

\* The document ends in the middle of a character: after its well-formed
\* characters come bytes that begin a character and do not complete it.
EndsMidCharacter ==
  Incomplete(encoding, Drop(doc, ValidPrefixLen(encoding, doc, 1)))

\* C14 (a truncated last character is reported): when the source, never
\* having failed, has ended in the middle of a character, the call that
\* signals the end of the stream comes after a malformed-input error.
C14_TruncatedTailReported ==
  (/\ EndsMidCharacter
   /\ fails_left = MaxFails
   /\ ret.op \in {"fill_buf", "read"}
   /\ ret.res = "ok"
   /\ ret.data = <<>>
   /\ ret.src_read = 0)
    => malformed_seen

\* C15 (the decode step never truncates): when a refill succeeds, the
\* decoder, called as decoder_helper calls it, has read the whole chunk:
\* it did not stop at a full destination with input unread.
C15_DecodeStepNeverTruncates ==
  [][(ret'.refilled /\ ret'.res = "ok")
       => decode_to_string_without_replacement(
            encoding, decoder, ret'.chunk, 4 * Len(ret'.chunk)).read
          = Len(ret'.chunk)]_vars

\* C16 (cursor invariant): after every call 0 <= output_pos <=
\* len(output_buf); a fill_buf that installs a chunk leaves the cursor at 0
\* and nothing else takes the cursor back to 0; the slice fill_buf returns
\* is output_buf[output_pos..].
C16_CursorInvariant ==
  [][/\ output_pos' \in 0..Len(output_buf')
     /\ (ret'.op = "fill_buf" /\ ret'.refilled /\ ret'.res = "ok")
          => output_pos' = 0
     /\ (output_pos # 0 /\ output_pos' = 0)
          => (ret'.refilled /\ ret'.res = "ok")
     /\ (ret'.op = "fill_buf" /\ ret'.res = "ok")
          => ret'.data = Drop(output_buf', output_pos')]_vars

\* C17 (peek is free while draining): a fill_buf called with the cursor
\* inside the chunk succeeds without reading the source or calling the
\* decoder, leaves the source, the input buffer, the chunk, the cursor and
\* the decoder as they are and returns output_buf[output_pos..]; a
\* fill_buf that follows a fill_buf that returned bytes returns the same
\* bytes.
C17_PeekIsFree ==
  [][/\ (output_pos < Len(output_buf) /\ ret'.op = "fill_buf")
          => /\ ret'.res = "ok"
             /\ ~ret'.refilled
             /\ ret'.src_read = -1
             /\ inner' = inner
             /\ input_buf' = input_buf
             /\ output_buf' = output_buf
             /\ output_pos' = output_pos
             /\ decoder' = decoder
             /\ ret'.data = Drop(output_buf, output_pos)
     /\ (/\ ret.op = "fill_buf" /\ ret.res = "ok" /\ ret.data # <<>>
         /\ ret'.op = "fill_buf")
          => ret'.data = ret.data]_vars

\* C17 witness: a fill_buf that did not refill returned the rest of a chunk
\* the caller had consumed a part of.
C17_Witness ==
  /\ ret.op = "fill_buf"
  /\ ~ret.refilled
  /\ ret.data # <<>>
  /\ output_pos > 0
  /\ inner # <<>>

\* C18 (one decode per read): the chunk a call hands to the decoder is the
\* bytes of one read of the source made in that call, and the source is
\* read only when the input buffer is empty.
C18_OneDecodePerRead ==
  [][/\ (ret'.refilled /\ ret'.res # "io_error")
          => /\ ret'.src_read = Len(ret'.chunk)
             /\ IsSuffix(ret'.chunk,
                         SubSeq(doc, 1, Len(doc) - Len(inner')))
     /\ inner' # inner => input_buf = <<>>]_vars

====
